---------------------------- MODULE Spec2Model ----------------------------
(***************************************************************************)
(* A model of verbex.Verbex, the fluent regular-expression builder of      *)
(* PythonVerbalExpressions (src/src/verbex/verbex.py).                     *)
(*                                                                         *)
(* Pattern text is a sequence of one-character strings, so that escaping,  *)
(* formatting and rendering are computed character by character.  A        *)
(* builder is its list of fragments (_parts) and its flag set              *)
(* (_modifiers).  Every public method is one action; a method that calls   *)
(* another method (OR -> find, then -> find, capture_group -> its helpers, *)
(* start_of_line -> find, ...) runs the callee, decorators included, as    *)
(* part of the same action.                                                *)
(***************************************************************************)
EXTENDS Integers, Sequences, FiniteSets, TLC

\* ------------------------------------------------------------------ bounds

\* Number of method calls made, over all builders, in one behaviour.
MaxCalls == 2

\* Repetition counts range over 0..MaxN; number_range spans up to MaxN + 1
\* integers.
MaxN == 1

\* The builders of a behaviour (two, so that one can be embedded in another).
Builders == {"x", "y"}

\* ------------------------------------------------------ operand values

\* A Python value passed as an argument:
\*   kind "str"  a plain str               (text: its characters)
\*   kind "esc"  an EscapedText            (text: its characters, escaped)
\*   kind "cc"   a CharClass member        (text: its value)
\*   kind "sc"   a SpecialChar member      (text: its value)
\*   kind "vbx"  a Verbex                  (ref: the builder)
\*   kind "int"  an int                    (num: its value)
\*   kind "none" None
Val(kind, text, ref, num) == [kind |-> kind, text |-> text, ref |-> ref, num |-> num]

None == Val("none", <<>>, "", 0)

PlainStr(s) == Val("str", s, "", 0)

IntVal(i) == Val("int", <<>>, "", i)

VerbexRef(b) == Val("vbx", <<>>, b, 0)

\* The characters re.escape prefixes with a backslash.
SpecialChars ==
    {"(", ")", "[", "]", "{", "}", "?", "*", "+", "-", "|", "^", "$",
     "\\", ".", "&", "~", "#", " ", "\t", "\n", "\r", "\f"}

RECURSIVE re_dot_escape(_)
re_dot_escape(s) ==
    IF s = <<>> THEN <<>>
    ELSE (IF Head(s) \in SpecialChars THEN <<"\\", Head(s)>> ELSE <<Head(s)>>)
         \o re_dot_escape(Tail(s))

\* EscapedText(value): a str subclass holding re.escape(value).
EscapedText(value) == Val("esc", re_dot_escape(value), "", 0)

\* CharClass: member name -> value.
CharClass ==
    [DIGIT |-> <<"\\", "d">>,
     LETTER |-> <<"\\", "w">>,
     UPPERCASE_LETTER |-> <<"\\", "u">>,
     LOWERCASE_LETTER |-> <<"\\", "l">>,
     WHITESPACE |-> <<"\\", "s">>,
     TAB |-> <<"\\", "t">>]

\* SpecialChar: member name -> value.
SpecialChar ==
    [LINEBREAK |-> <<"(", "\\", "n", "|", "(", "\\", "r", "\\", "n", ")", ")">>,
     START_OF_LINE |-> <<"^">>,
     END_OF_LINE |-> <<"$">>,
     TAB |-> <<"\t">>]

CharClassMember(name) == Val("cc", CharClass[name], "", 0)

SpecialCharMember(name) == Val("sc", SpecialChar[name], "", 0)

\* ------------------------------------------------------------------ state

VARIABLES
    parts,      \* parts[b]: the fragments of builder b (Verbex._parts)
    modifiers,  \* modifiers[b]: the flags of builder b (Verbex._modifiers)
    outcome,    \* how the last call ended: "ok" or the exception raised
    returned,   \* what the last call returned: a builder, "Pattern", or ""
    last,       \* the last call: method, receiver and arguments
    calls       \* the number of calls made so far

vars == <<parts, modifiers, outcome, returned, last, calls>>

\* re.RegexFlag(0)
EMPTY_REGEX_FLAG == {}

RegexFlags == {"IGNORECASE", "MULTILINE", "ASCII"}

\* The builders as one value, which the methods below take and return.
Store == [parts |-> parts, modifiers |-> modifiers]

\* A method's result: the builders after it, the exception it raised, and
\* the value it returned (a builder, or "Pattern" for a compiled pattern).
Return(st, value) == [st |-> st, exc |-> "ok", ret |-> value]

Raise(st, exc) == [st |-> st, exc |-> exc, ret |-> ""]

RECURSIVE Join(_)
Join(fragments) ==
    IF fragments = <<>> THEN <<>> ELSE Head(fragments) \o Join(Tail(fragments))

\* Verbex.__str__: "".join(self._parts)
Render(st, b) == Join(st.parts[b])


\* ------------------------------------------------- decorators and helpers

\* re_escape without its isinstance(arg, EscapedText) test: text that is
\* already escaped is escaped again.
re_escape_again(arg, kw) ==
    IF arg.kind \in {"str", "esc"} THEN EscapedText(arg.text) ELSE arg

\* re_escape's inner(): a positional argument (kw = FALSE) or a keyword
\* argument (kw = TRUE) that is a str and not yet an EscapedText becomes
\* EscapedText(arg); any other value is handed on as it is.
re_escape(arg, kw) ==
    IF kw
    THEN (IF arg.kind # "esc" /\ arg.kind \in {"str", "esc"}
          THEN EscapedText(arg.text) ELSE arg)
    ELSE (IF arg.kind # "esc" /\ arg.kind \in {"str", "esc"}
          THEN EscapedText(arg.text) ELSE arg)

\* beartype's check of a parameter annotated VerbexEscapedCharClassOrSpecial:
\* Verbex | str | CharClass | SpecialChar.
IsVerbexEscapedCharClassOrSpecial(v) == v.kind \in {"vbx", "str", "esc", "cc", "sc"}

\* beartype's check of a parameter annotated CharClassOrChars: str | CharClass.
IsCharClassOrChars(v) == v.kind \in {"str", "esc", "cc"}

\* beartype's check of a parameter annotated Char: _string_len_is_1.
IsChar(v) == v.kind \in {"str", "esc"} /\ Len(v.text) = 1

BeartypeViolation == "BeartypeCallHintParamViolation"

Digits == <<"0", "1", "2", "3", "4", "5", "6", "7", "8", "9">>

RECURSIVE NatToStr(_)
NatToStr(n) ==
    IF n < 10 THEN <<Digits[n + 1]>>
    ELSE NatToStr(n \div 10) \o <<Digits[(n % 10) + 1]>>

\* str(i) of an int.
IntToStr(i) == IF i < 0 THEN <<"-">> \o NatToStr(0 - i) ELSE NatToStr(i)

\* str(v), which f"{v!s}" and f"{v}" both come to for these values.
ToStr(st, v) ==
    CASE v.kind \in {"str", "esc", "cc", "sc"} -> v.text
      [] v.kind = "vbx" -> Render(st, v.ref)
      [] v.kind = "int" -> IntToStr(v.num)
      [] OTHER -> <<"N", "o", "n", "e">>

\* _add on a fragment list that is an attribute of the class, shared by every
\* builder.
_add_shared(st, self, value) ==
    [st EXCEPT !.parts = [b \in DOMAIN st.parts |-> Append(st.parts[b], value)]]

\* Verbex._add with a str value (no method of the class passes a list).
_add(st, self, value) ==
    [st EXCEPT !.parts[self] = Append(@, value)]

\* ------------------------------------------------------- text operations

find(st, self, text0, kw) ==
    LET text == re_escape(text0, kw) IN
    IF ~IsVerbexEscapedCharClassOrSpecial(text) THEN Raise(st, BeartypeViolation)
    ELSE Return(_add(st, self, ToStr(st, text)), self)

\* then handing find the operand's str(): a builder's text arrives as a plain
\* string and is escaped.
then_of_str(st, self, text0, kw) ==
    LET text == re_escape(text0, kw) IN
    IF ~IsVerbexEscapedCharClassOrSpecial(text) THEN Raise(st, BeartypeViolation)
    ELSE find(st, self, PlainStr(ToStr(st, text)), FALSE)

then(st, self, text0, kw) ==
    LET text == re_escape(text0, kw) IN
    IF ~IsVerbexEscapedCharClassOrSpecial(text) THEN Raise(st, BeartypeViolation)
    ELSE find(st, self, text, FALSE)

\* OR without beartype's check of its own parameter: a value find rejects is
\* found out only after "|" was appended.
OR_unchecked(st, self, text0, kw) ==
    find(_add(st, self, <<"|">>), self, re_escape(text0, kw), FALSE)

OR(st, self, text0, kw) ==
    LET text == re_escape(text0, kw) IN
    IF ~IsVerbexEscapedCharClassOrSpecial(text) THEN Raise(st, BeartypeViolation)
    ELSE find(_add(st, self, <<"|">>), self, text, FALSE)

_capture_group_with_name(st, self, name0, text0) ==
    LET name == re_escape(name0, FALSE)
        text == re_escape(text0, FALSE)
    IN  IF ~(name.kind \in {"str", "esc"}) \/ ~IsVerbexEscapedCharClassOrSpecial(text)
        THEN Raise(st, BeartypeViolation)
        ELSE Return(_add(st, self,
                 <<"(", "?", "<">> \o ToStr(st, name) \o <<">">>
                 \o ToStr(st, text) \o <<")">>), self)

_capture_group_without_name(st, self, text0) ==
    LET text == re_escape(text0, FALSE) IN
    IF ~IsVerbexEscapedCharClassOrSpecial(text) THEN Raise(st, BeartypeViolation)
    ELSE Return(_add(st, self, <<"(">> \o ToStr(st, text) \o <<")">>), self)

capture_group(st, self, name_or_text0, text0, kw) ==
    LET name_or_text == re_escape(name_or_text0, kw)
        text == re_escape(text0, kw)
    IN  IF ~(name_or_text.kind = "none" \/ IsVerbexEscapedCharClassOrSpecial(name_or_text))
           \/ ~(text.kind = "none" \/ IsVerbexEscapedCharClassOrSpecial(text))
        THEN Raise(st, BeartypeViolation)
        ELSE IF name_or_text.kind # "none" /\ text.kind = "none"
        THEN _capture_group_without_name(st, self, name_or_text)
        ELSE IF name_or_text.kind # "none" /\ name_or_text.kind \in {"str", "esc"}
        THEN _capture_group_with_name(st, self, name_or_text, text)
        ELSE Raise(st, "ValueError")

zero_or_more(st, self, text0, kw) ==
    LET text == re_escape(text0, kw) IN
    IF ~IsVerbexEscapedCharClassOrSpecial(text) THEN Raise(st, BeartypeViolation)
    ELSE Return(_add(st, self, <<"(", "?", ":">> \o ToStr(st, text) \o <<")", "*">>), self)

one_or_more(st, self, text0, kw) ==
    LET text == re_escape(text0, kw) IN
    IF ~IsVerbexEscapedCharClassOrSpecial(text) THEN Raise(st, BeartypeViolation)
    ELSE Return(_add(st, self, <<"(", "?", ":">> \o ToStr(st, text) \o <<")", "+">>), self)

n_times(st, self, text0, n, kw) ==
    LET text == re_escape(text0, kw) IN
    IF ~IsVerbexEscapedCharClassOrSpecial(text) THEN Raise(st, BeartypeViolation)
    ELSE Return(_add(st, self,
             <<"(", "?", ":">> \o ToStr(st, text) \o <<")", "{">>
             \o IntToStr(n) \o <<"}">>), self)

n_times_or_more(st, self, text0, n, kw) ==
    LET text == re_escape(text0, kw) IN
    IF ~IsVerbexEscapedCharClassOrSpecial(text) THEN Raise(st, BeartypeViolation)
    ELSE Return(_add(st, self,
             <<"(", "?", ":">> \o ToStr(st, text) \o <<")", "{">>
             \o IntToStr(n) \o <<",", "}">>), self)

\* n_to_m_times with its two counts formatted the other way round.
n_to_m_times_swapped(st, self, text0, n, m, kw) ==
    LET text == re_escape(text0, kw) IN
    IF ~IsVerbexEscapedCharClassOrSpecial(text) THEN Raise(st, BeartypeViolation)
    ELSE Return(_add(st, self,
             <<"(", "?", ":">> \o ToStr(st, text) \o <<")", "{">>
             \o IntToStr(m) \o <<",">> \o IntToStr(n) \o <<"}">>), self)

n_to_m_times(st, self, text0, n, m, kw) ==
    LET text == re_escape(text0, kw) IN
    IF ~IsVerbexEscapedCharClassOrSpecial(text) THEN Raise(st, BeartypeViolation)
    ELSE Return(_add(st, self,
             <<"(", "?", ":">> \o ToStr(st, text) \o <<")", "{">>
             \o IntToStr(n) \o <<",">> \o IntToStr(m) \o <<"}">>), self)

maybe(st, self, text0, kw) ==
    LET text == re_escape(text0, kw) IN
    IF ~IsVerbexEscapedCharClassOrSpecial(text) THEN Raise(st, BeartypeViolation)
    ELSE Return(_add(st, self, <<"(", "?", ":">> \o ToStr(st, text) \o <<")", "?">>), self)

followed_by(st, self, text0, kw) ==
    LET text == re_escape(text0, kw) IN
    IF ~IsVerbexEscapedCharClassOrSpecial(text) THEN Raise(st, BeartypeViolation)
    ELSE Return(_add(st, self, <<"(", "?", "=">> \o ToStr(st, text) \o <<")">>), self)

not_followed_by(st, self, text0, kw) ==
    LET text == re_escape(text0, kw) IN
    IF ~IsVerbexEscapedCharClassOrSpecial(text) THEN Raise(st, BeartypeViolation)
    ELSE Return(_add(st, self, <<"(", "?", "!">> \o ToStr(st, text) \o <<")">>), self)

preceded_by(st, self, text0, kw) ==
    LET text == re_escape(text0, kw) IN
    IF ~IsVerbexEscapedCharClassOrSpecial(text) THEN Raise(st, BeartypeViolation)
    ELSE Return(_add(st, self, <<"(", "?", "<", "=">> \o ToStr(st, text) \o <<")">>), self)

not_preceded_by(st, self, text0, kw) ==
    LET text == re_escape(text0, kw) IN
    IF ~IsVerbexEscapedCharClassOrSpecial(text) THEN Raise(st, BeartypeViolation)
    ELSE Return(_add(st, self, <<"(", "?", "<", "!">> \o ToStr(st, text) \o <<")">>), self)

any_of(st, self, chargroup0, kw) ==
    LET chargroup == re_escape(chargroup0, kw) IN
    IF ~IsCharClassOrChars(chargroup) THEN Raise(st, BeartypeViolation)
    ELSE Return(_add(st, self,
             <<"(", "?", ":", "[">> \o ToStr(st, chargroup) \o <<"]", ")">>), self)

\* not_any_of without the "^" that negates the set.
not_any_of_unnegated(st, self, text0, kw) ==
    LET text == re_escape(text0, kw) IN
    IF ~IsCharClassOrChars(text) THEN Raise(st, BeartypeViolation)
    ELSE Return(_add(st, self,
             <<"(", "?", ":", "[">> \o ToStr(st, text) \o <<"]", ")">>), self)

not_any_of(st, self, text0, kw) ==
    LET text == re_escape(text0, kw) IN
    IF ~IsCharClassOrChars(text) THEN Raise(st, BeartypeViolation)
    ELSE Return(_add(st, self,
             <<"(", "?", ":", "[", "^">> \o ToStr(st, text) \o <<"]", ")">>), self)

\* anything_but is wrapped by re_escape alone: beartype checks nothing.
anything_but(st, self, chargroup0, kw) ==
    LET chargroup == re_escape(chargroup0, kw) IN
    Return(_add(st, self, <<"[", "^">> \o ToStr(st, chargroup) \o <<"]", "+">>), self)

\* ---------------------------------------------- operations without text

start_of_line(st, self) == find(st, self, SpecialCharMember("START_OF_LINE"), FALSE)

end_of_line(st, self) == find(st, self, SpecialCharMember("END_OF_LINE"), FALSE)

line_break(st, self) == find(st, self, SpecialCharMember("LINEBREAK"), FALSE)

tab(st, self) == find(st, self, SpecialCharMember("TAB"), FALSE)

anything(st, self) == Return(_add(st, self, <<".", "+">>), self)

as_few(st, self) == Return(_add(st, self, <<"?">>), self)

\* range(start, stop) as a sequence.
Range(start, stop) ==
    [i \in 1..(IF stop > start THEN stop - start ELSE 0) |-> start + i - 1]

RECURSIVE JoinWith(_, _)
JoinWith(sep, strs) ==
    IF strs = <<>> THEN <<>>
    ELSE IF Len(strs) = 1 THEN Head(strs)
    ELSE Head(strs) \o sep \o JoinWith(sep, Tail(strs))

\* number_range over range(start, end): the last number is left out.
number_range_exclusive(st, self, start, end) ==
    Return(_add(st, self,
        <<"(", "?", ":">>
        \o JoinWith(<<"|">>, [k \in DOMAIN Range(start, end) |->
                                 IntToStr(Range(start, end)[k])])
        \o <<")">>), self)

number_range(st, self, start, end) ==
    Return(_add(st, self,
        <<"(", "?", ":">>
        \o JoinWith(<<"|">>, [k \in DOMAIN Range(start, end + 1) |->
                                 IntToStr(Range(start, end + 1)[k])])
        \o <<")">>), self)

letter_range(st, self, start, end) ==
    IF ~IsChar(start) \/ ~IsChar(end) THEN Raise(st, BeartypeViolation)
    ELSE Return(_add(st, self,
             <<"[">> \o ToStr(st, start) \o <<"-">> \o ToStr(st, end) \o <<"]">>), self)

word(st, self) ==
    Return(_add(st, self, <<"(", "\\", "b", "\\", "w", "+", "\\", "b", ")">>), self)

\* --------------------------------------------------------------- modifiers

\* with_any_case assigning the flag instead of or-ing it in.
with_any_case_assigned(st, self) ==
    Return([st EXCEPT !.modifiers[self] = {"IGNORECASE"}], self)

with_any_case(st, self) ==
    Return([st EXCEPT !.modifiers[self] = @ \cup {"IGNORECASE"}], self)

search_by_line(st, self) ==
    Return([st EXCEPT !.modifiers[self] = @ \cup {"MULTILINE"}], self)

with_ascii(st, self) ==
    Return([st EXCEPT !.modifiers[self] = @ \cup {"ASCII"}], self)

\* ------------------------------------------------------------- compiling

\* What follows is the part of re.compile's parser that regex() runs into
\* with the text a builder renders: groups and their extensions, character
\* sets, escapes and repeats.

\* The index of the "]" closing a character set whose body starts at j, or 0.
RECURSIVE ClassEnd(_, _)
ClassEnd(s, j) ==
    IF j > Len(s) THEN 0
    ELSE IF s[j] = "\\" THEN ClassEnd(s, j + 2)
    ELSE IF s[j] = "]" THEN j
    ELSE ClassEnd(s, j + 1)

IsDigit(c) == \E d \in DOMAIN Digits : Digits[d] = c

RECURSIVE DigitsEnd(_, _)
DigitsEnd(s, j) ==
    IF j <= Len(s) /\ IsDigit(s[j]) THEN DigitsEnd(s, j + 1) ELSE j

DigitValue(c) == (CHOOSE d \in DOMAIN Digits : Digits[d] = c) - 1

RECURSIVE StrToNat(_)
StrToNat(s) ==
    IF s = <<>> THEN 0
    ELSE 10 * StrToNat(SubSeq(s, 1, Len(s) - 1)) + DigitValue(s[Len(s)])

\* The repeat "{lo}", "{lo,}" or "{lo,hi}" starting at s[i] = "{", if it is
\* one: whether it is a repeat, whether its bounds are in order, and where
\* the text goes on.
RepeatAt(s, i) ==
    IF i + 1 <= Len(s) /\ s[i + 1] = "}"
    THEN [repeat |-> FALSE, ordered |-> TRUE, next |-> i + 1]
    ELSE
      LET j1 == DigitsEnd(s, i + 1)
          lo == SubSeq(s, i + 1, j1 - 1)
          comma == j1 <= Len(s) /\ s[j1] = ","
          j2 == IF comma THEN DigitsEnd(s, j1 + 1) ELSE j1
          hi == IF comma THEN SubSeq(s, j1 + 1, j2 - 1) ELSE lo
      IN  IF ~(j2 <= Len(s) /\ s[j2] = "}")
          THEN [repeat |-> FALSE, ordered |-> TRUE, next |-> i + 1]
          ELSE [repeat |-> TRUE,
                ordered |-> (hi = <<>> \/ StrToNat(hi) >= StrToNat(lo)),
                next |-> j2 + 1]

\* The parser's scan from s[i] on, inside depth open groups, where prev says
\* what a repeat at s[i] would apply to: "none" (nothing), "atom", "quant" (a
\* repeat) or "lazy" (a repeat with its "?" or "+" suffix).  TRUE when the
\* parser raises re.error for an unbalanced parenthesis, an unterminated
\* character set, an escape cut off by the end of the text, an unknown
\* "(?<" extension, a repeat with nothing to repeat, a repeat of a repeat,
\* or a repeat whose minimum exceeds its maximum.
RECURSIVE Scan(_, _, _, _)
Scan(s, i, depth, prev) ==
    IF i > Len(s) THEN depth > 0
    ELSE LET c == s[i] IN
      CASE c = "\\" ->
             IF i + 1 > Len(s) THEN TRUE ELSE Scan(s, i + 2, depth, "atom")
        [] c = "[" ->
             LET j1 == IF i + 1 <= Len(s) /\ s[i + 1] = "^" THEN i + 2 ELSE i + 1
                 j2 == IF j1 <= Len(s) /\ s[j1] = "]" THEN j1 + 1 ELSE j1
                 e == ClassEnd(s, j2)
             IN  IF e = 0 THEN TRUE ELSE Scan(s, e + 1, depth, "atom")
        [] c = "(" ->
             IF i + 1 <= Len(s) /\ s[i + 1] = "?"
             THEN IF i + 2 > Len(s) THEN TRUE
                  ELSE IF s[i + 2] = "<"
                  THEN IF i + 3 <= Len(s) /\ s[i + 3] \in {"=", "!"}
                       THEN Scan(s, i + 4, depth + 1, "none")
                       ELSE TRUE
                  ELSE IF s[i + 2] \in {":", "=", "!"}
                  THEN Scan(s, i + 3, depth + 1, "none")
                  ELSE Scan(s, i + 2, depth + 1, "none")
             ELSE Scan(s, i + 1, depth + 1, "none")
        [] c = ")" ->
             IF depth = 0 THEN TRUE ELSE Scan(s, i + 1, depth - 1, "atom")
        [] c \in {"|", "^", "$"} -> Scan(s, i + 1, depth, "none")
        [] c = "*" ->
             IF prev # "atom" THEN TRUE ELSE Scan(s, i + 1, depth, "quant")
        [] c \in {"+", "?"} ->
             IF prev \in {"none", "lazy"} THEN TRUE
             ELSE Scan(s, i + 1, depth, IF prev = "atom" THEN "quant" ELSE "lazy")
        [] c = "{" ->
             LET r == RepeatAt(s, i) IN
             IF r.repeat
             THEN IF prev # "atom" \/ ~r.ordered THEN TRUE
                  ELSE Scan(s, r.next, depth, "quant")
             ELSE Scan(s, i + 1, depth, "atom")
        [] OTHER -> Scan(s, i + 1, depth, "atom")

\* The pattern text is one the parser rejects for the reasons Scan knows.
Malformed(s) == Scan(s, 1, 0, "none")

\* Verbex.regex: re.compile(str(self), self._modifiers).  The builder is left
\* as it is; re.error is raised for a malformed text, and may be raised for
\* the engine's further reasons (a look-behind of variable width, a bad
\* character range, an unknown escape), which are not told apart here.
regex(st, self) ==
    LET text == Render(st, self) IN
    IF Malformed(text) THEN {Raise(st, "re.error")}
    ELSE {Return(st, "Pattern"), Raise(st, "re.error")}

\* ------------------------------------------------------- inputs and Init

\* The values a caller passes as text: a plain string with a character that
\* re.escape leaves alone and one it escapes, an EscapedText made from the same
\* string, a CharClass member, a SpecialChar member, a builder, and an int
\* (which no text parameter accepts).
TextOperands ==
    {PlainStr(<<"a", ".">>), EscapedText(<<"a", ".">>), CharClassMember("DIGIT"),
     SpecialCharMember("START_OF_LINE"), IntVal(5)}
    \cup {VerbexRef(b) : b \in Builders}

\* The first argument of capture_group: text, a group name, or None.
NameOrTextOperands == TextOperands \cup {PlainStr(<<"n">>), None}

\* The arguments of letter_range: two single characters, and a longer string.
LetterOperands == {PlainStr(<<"a">>), PlainStr(<<"\\">>), PlainStr(<<"a", "z">>)}

\* Repetition counts.
Counts == 0..MaxN

\* Where a number_range starts; it ends at most MaxN above and at least one
\* below (an empty range).
RangeStarts == {0 - MaxN, 0, 9}

\* The flags a builder is constructed with: Verbex(modifiers).
InitModifiers == {EMPTY_REGEX_FLAG, {"MULTILINE"}}

NoCall ==
    [op |-> "__init__", self |-> "", arg1 |-> None, arg2 |-> None,
     n |-> 0, m |-> 0, kw |-> FALSE]

\* Verbex.__init__: no fragments, the flags given.
Init ==
    /\ parts = [b \in Builders |-> <<>>]
    /\ modifiers \in [Builders -> InitModifiers]
    /\ outcome = "ok"
    /\ returned = ""
    /\ last = NoCall
    /\ calls = 0

\* What a call leaves behind: r is what the method returned for the current
\* builders; the call is recorded in last.
Called(op, self, arg1, arg2, n, m, kw, r) ==
    /\ parts' = r.st.parts
    /\ modifiers' = r.st.modifiers
    /\ outcome' = r.exc
    /\ returned' = r.ret
    /\ last' = [op |-> op, self |-> self, arg1 |-> arg1, arg2 |-> arg2,
                n |-> n, m |-> m, kw |-> kw]
    /\ calls' = calls + 1

\* ----------------------------------------------------------------- actions

call_find(self, text, kw) ==
    /\ calls < MaxCalls
    /\ Called("find", self, text, None, 0, 0, kw, find(Store, self, text, kw))


call_then(self, text, kw) ==
    /\ calls < MaxCalls
    /\ Called("then", self, text, None, 0, 0, kw, then(Store, self, text, kw))


call_OR(self, text, kw) ==
    /\ calls < MaxCalls
    /\ Called("OR", self, text, None, 0, 0, kw, OR(Store, self, text, kw))


call_zero_or_more(self, text, kw) ==
    /\ calls < MaxCalls
    /\ Called("zero_or_more", self, text, None, 0, 0, kw, zero_or_more(Store, self, text, kw))


call_one_or_more(self, text, kw) ==
    /\ calls < MaxCalls
    /\ Called("one_or_more", self, text, None, 0, 0, kw, one_or_more(Store, self, text, kw))


call_maybe(self, text, kw) ==
    /\ calls < MaxCalls
    /\ Called("maybe", self, text, None, 0, 0, kw, maybe(Store, self, text, kw))


call_followed_by(self, text, kw) ==
    /\ calls < MaxCalls
    /\ Called("followed_by", self, text, None, 0, 0, kw, followed_by(Store, self, text, kw))


call_not_followed_by(self, text, kw) ==
    /\ calls < MaxCalls
    /\ Called("not_followed_by", self, text, None, 0, 0, kw, not_followed_by(Store, self, text, kw))


call_preceded_by(self, text, kw) ==
    /\ calls < MaxCalls
    /\ Called("preceded_by", self, text, None, 0, 0, kw, preceded_by(Store, self, text, kw))


call_not_preceded_by(self, text, kw) ==
    /\ calls < MaxCalls
    /\ Called("not_preceded_by", self, text, None, 0, 0, kw, not_preceded_by(Store, self, text, kw))


call_any_of(self, text, kw) ==
    /\ calls < MaxCalls
    /\ Called("any_of", self, text, None, 0, 0, kw, any_of(Store, self, text, kw))


call_not_any_of(self, text, kw) ==
    /\ calls < MaxCalls
    /\ Called("not_any_of", self, text, None, 0, 0, kw, not_any_of(Store, self, text, kw))


call_anything_but(self, text, kw) ==
    /\ calls < MaxCalls
    /\ Called("anything_but", self, text, None, 0, 0, kw, anything_but(Store, self, text, kw))


call_capture_group(self, name_or_text, text, kw) ==
    /\ calls < MaxCalls
    /\ Called("capture_group", self, name_or_text, text, 0, 0, kw,
       capture_group(Store, self, name_or_text, text, kw))


call_n_times(self, text, n, kw) ==
    /\ calls < MaxCalls
    /\ Called("n_times", self, text, None, n, 0, kw, n_times(Store, self, text, n, kw))


call_n_times_or_more(self, text, n, kw) ==
    /\ calls < MaxCalls
    /\ Called("n_times_or_more", self, text, None, n, 0, kw,
       n_times_or_more(Store, self, text, n, kw))


call_n_to_m_times(self, text, n, m, kw) ==
    /\ calls < MaxCalls
    /\ Called("n_to_m_times", self, text, None, n, m, kw,
       n_to_m_times(Store, self, text, n, m, kw))


call_number_range(self, start, end) ==
    /\ calls < MaxCalls
    /\ Called("number_range", self, None, None, start, end, FALSE,
       number_range(Store, self, start, end))


call_letter_range(self, start, end) ==
    /\ calls < MaxCalls
    /\ Called("letter_range", self, start, end, 0, 0, FALSE,
       letter_range(Store, self, start, end))


call_start_of_line(self) ==
    /\ calls < MaxCalls
    /\ Called("start_of_line", self, None, None, 0, 0, FALSE, start_of_line(Store, self))


call_end_of_line(self) ==
    /\ calls < MaxCalls
    /\ Called("end_of_line", self, None, None, 0, 0, FALSE, end_of_line(Store, self))


call_line_break(self) ==
    /\ calls < MaxCalls
    /\ Called("line_break", self, None, None, 0, 0, FALSE, line_break(Store, self))


call_tab(self) ==
    /\ calls < MaxCalls
    /\ Called("tab", self, None, None, 0, 0, FALSE, tab(Store, self))


call_anything(self) ==
    /\ calls < MaxCalls
    /\ Called("anything", self, None, None, 0, 0, FALSE, anything(Store, self))


call_as_few(self) ==
    /\ calls < MaxCalls
    /\ Called("as_few", self, None, None, 0, 0, FALSE, as_few(Store, self))


call_word(self) ==
    /\ calls < MaxCalls
    /\ Called("word", self, None, None, 0, 0, FALSE, word(Store, self))


call_with_any_case(self) ==
    /\ calls < MaxCalls
    /\ Called("with_any_case", self, None, None, 0, 0, FALSE, with_any_case(Store, self))


call_search_by_line(self) ==
    /\ calls < MaxCalls
    /\ Called("search_by_line", self, None, None, 0, 0, FALSE, search_by_line(Store, self))


call_with_ascii(self) ==
    /\ calls < MaxCalls
    /\ Called("with_ascii", self, None, None, 0, 0, FALSE, with_ascii(Store, self))


call_regex(self) ==
    /\ calls < MaxCalls
    /\ \E r \in regex(Store, self) :
          Called("regex", self, None, None, 0, 0, FALSE, r)


Next ==
    \/ \E self \in Builders, text \in TextOperands, kw \in BOOLEAN :
          call_find(self, text, kw)
    \/ \E self \in Builders, text \in TextOperands, kw \in BOOLEAN :
          call_then(self, text, kw)
    \/ \E self \in Builders, text \in TextOperands, kw \in BOOLEAN :
          call_OR(self, text, kw)
    \/ \E self \in Builders, text \in TextOperands, kw \in BOOLEAN :
          call_zero_or_more(self, text, kw)
    \/ \E self \in Builders, text \in TextOperands, kw \in BOOLEAN :
          call_one_or_more(self, text, kw)
    \/ \E self \in Builders, text \in TextOperands, kw \in BOOLEAN :
          call_maybe(self, text, kw)
    \/ \E self \in Builders, text \in TextOperands, kw \in BOOLEAN :
          call_followed_by(self, text, kw)
    \/ \E self \in Builders, text \in TextOperands, kw \in BOOLEAN :
          call_not_followed_by(self, text, kw)
    \/ \E self \in Builders, text \in TextOperands, kw \in BOOLEAN :
          call_preceded_by(self, text, kw)
    \/ \E self \in Builders, text \in TextOperands, kw \in BOOLEAN :
          call_not_preceded_by(self, text, kw)
    \/ \E self \in Builders, text \in TextOperands, kw \in BOOLEAN :
          call_any_of(self, text, kw)
    \/ \E self \in Builders, text \in TextOperands, kw \in BOOLEAN :
          call_not_any_of(self, text, kw)
    \/ \E self \in Builders, text \in TextOperands, kw \in BOOLEAN :
          call_anything_but(self, text, kw)
    \/ \E self \in Builders, name_or_text \in NameOrTextOperands,
          text \in TextOperands \cup {None}, kw \in BOOLEAN :
          call_capture_group(self, name_or_text, text, kw)
    \/ \E self \in Builders, text \in TextOperands, n \in Counts, kw \in BOOLEAN :
          call_n_times(self, text, n, kw)
    \/ \E self \in Builders, text \in TextOperands, n \in Counts, kw \in BOOLEAN :
          call_n_times_or_more(self, text, n, kw)
    \/ \E self \in Builders, text \in TextOperands, n \in Counts, m \in Counts,
          kw \in BOOLEAN :
          call_n_to_m_times(self, text, n, m, kw)
    \/ \E self \in Builders, start \in RangeStarts :
          \E end \in (start - 1)..(start + MaxN) :
             call_number_range(self, start, end)
    \/ \E self \in Builders, start \in LetterOperands, end \in LetterOperands :
          call_letter_range(self, start, end)
    \/ \E self \in Builders : call_start_of_line(self)
    \/ \E self \in Builders : call_end_of_line(self)
    \/ \E self \in Builders : call_line_break(self)
    \/ \E self \in Builders : call_tab(self)
    \/ \E self \in Builders : call_anything(self)
    \/ \E self \in Builders : call_as_few(self)
    \/ \E self \in Builders : call_word(self)
    \/ \E self \in Builders : call_with_any_case(self)
    \/ \E self \in Builders : call_search_by_line(self)
    \/ \E self \in Builders : call_with_ascii(self)
    \/ \E self \in Builders : call_regex(self)

Spec == Init /\ [][Next]_vars

\* ------------------------------------------------- vocabulary of the claims

\* The fragments the step's call appended to its receiver.
Appended ==
    SubSeq(parts'[last'.self], Len(parts[last'.self]) + 1, Len(parts'[last'.self]))

\* The operations the claims call wrapped composition operations.
Lookarounds == {"followed_by", "not_followed_by", "preceded_by", "not_preceded_by"}

Quantifiers ==
    {"maybe", "zero_or_more", "one_or_more", "n_times", "n_times_or_more",
     "n_to_m_times"}

ComposeOps == {"find", "then", "OR", "capture_group"} \cup Quantifiers \cup Lookarounds

ClassOps == {"any_of", "not_any_of", "anything_but"}

FlagOps == {"with_any_case", "search_by_line", "with_ascii"}

ArgumentErrors == {"ValueError", BeartypeViolation}

\* The operand of the last call: capture_group's text is its second argument
\* when it has one.
OperandOf(call) == IF call.arg2 # None THEN call.arg2 ELSE call.arg1

\* What section 4.1 says is embedded for an operand: a plain string escaped,
\* anything else as it renders, a builder as it rendered before the call.
Embedded(v) ==
    CASE v.kind = "str" -> re_dot_escape(v.text)
      [] v.kind = "vbx" -> Join(parts[v.ref])
      [] OTHER -> v.text

\* The same for the operand of a call.  A builder given to its own OR is
\* rendered by the find that OR calls, after OR has appended "|" to it.
EmbeddedBy(call) ==
    LET v == OperandOf(call) IN
    IF call.op = "OR" /\ v.kind = "vbx" /\ v.ref = call.self
    THEN Embedded(v) \o <<"|">>
    ELSE Embedded(v)

\* The table of section 4.2: what stands before and after the operand.
TablePrefix(op) ==
    CASE op \in Quantifiers -> <<"(", "?", ":">>
      [] op = "capture_group" -> <<"(">>
      [] op = "followed_by" -> <<"(", "?", "=">>
      [] op = "not_followed_by" -> <<"(", "?", "!">>
      [] op = "preceded_by" -> <<"(", "?", "<", "=">>
      [] op = "not_preceded_by" -> <<"(", "?", "<", "!">>
      [] op = "any_of" -> <<"(", "?", ":", "[">>
      [] op = "not_any_of" -> <<"(", "?", ":", "[", "^">>
      [] op = "anything_but" -> <<"[", "^">>
      [] OTHER -> <<>>

TableSuffix(op, n, m) ==
    CASE op = "maybe" -> <<")", "?">>
      [] op = "zero_or_more" -> <<")", "*">>
      [] op = "one_or_more" -> <<")", "+">>
      [] op = "n_times" -> <<")", "{">> \o IntToStr(n) \o <<"}">>
      [] op = "n_times_or_more" -> <<")", "{">> \o IntToStr(n) \o <<",", "}">>
      [] op = "n_to_m_times" ->
             <<")", "{">> \o IntToStr(n) \o <<",">> \o IntToStr(m) \o <<"}">>
      [] op \in {"capture_group"} \cup Lookarounds -> <<")">>
      [] op \in {"any_of", "not_any_of"} -> <<"]", ")">>
      [] op = "anything_but" -> <<"]", "+">>
      [] OTHER -> <<>>

\* The fragments the table gives for a call that embeds the text e.
TableFragments(call, e) ==
    IF call.op = "OR" THEN << <<"|">>, e >>
    ELSE << TablePrefix(call.op) \o e \o TableSuffix(call.op, call.n, call.m) >>

\* capture_group was called with a group name and a text.
IsNamedGroup(call) ==
    /\ call.op = "capture_group"
    /\ call.arg1.kind \in {"str", "esc"}
    /\ call.arg2 # None

\* f is "(?<" some name ">" e ")".
IsNamedGroupOf(f, e) ==
    /\ Len(f) >= Len(e) + 5
    /\ SubSeq(f, 1, 3) = <<"(", "?", "<">>
    /\ f[Len(f) - Len(e) - 1] = ">"
    /\ SubSeq(f, Len(f) - Len(e), Len(f)) = e \o <<")">>

\* ------------------------------------------------------------------ claims

\* C1: a call of a wrapped composition operation that succeeds appends the
\* fragment of the table with its operand embedded: a plain string as its
\* escaped form, escaped once also where the operation hands the operand on
\* to another wrapped operation (OR -> find, then -> find, capture_group ->
\* its helpers); an EscapedText, a CharClass or SpecialChar member, or a
\* builder, unchanged.  This is so for positional and for keyword operands.
C1_EscapedOnce ==
    [][(last'.op \in ComposeOps /\ outcome' = "ok") =>
         LET e == EmbeddedBy(last') IN
         IF IsNamedGroup(last')
         THEN Len(Appended) = 1 /\ IsNamedGroupOf(Appended[1], e)
         ELSE Appended = TableFragments(last', e)]_vars

\* C1's case: OR, which hands its operand on to find, was given a plain
\* string with a character to escape, by keyword, and embedded it.
C1_Witness ==
    /\ last.op = "OR"
    /\ last.kw
    /\ last.arg1 = PlainStr(<<"a", ".">>)
    /\ outcome = "ok"
    /\ parts[last.self][Len(parts[last.self])] = <<"a", "\\", ".">>

\* C2: the text every builder renders is well formed after every call.
C2_AlwaysWellFormed ==
    \A b \in Builders : ~Malformed(Join(parts[b]))

\* C3: x.then(y) and x.find(y), for a builder y (x itself included), leave x
\* rendering what it rendered before followed by what y rendered, unescaped.
C3_ThenConcatenates ==
    [][(last'.op \in {"find", "then"} /\ last'.arg1.kind = "vbx") =>
         /\ outcome' = "ok"
         /\ Join(parts'[last'.self])
              = Join(parts[last'.self]) \o Join(parts[last'.arg1.ref])]_vars

\* C3's case: x.then(y) was called with y rendering text that holds a
\* backslash and a metacharacter, and x now renders it as y does.
C3_Witness ==
    /\ last.op = "then"
    /\ last.self = "x"
    /\ last.arg1 = VerbexRef("y")
    /\ outcome = "ok"
    /\ Join(parts["y"]) = <<"a", "\\", ".">>
    /\ Join(parts["x"]) = Join(parts["y"])

\* C4: capture_group raises ValueError when it is given no text; appends
\* "(op)" when text alone is given, as either parameter; and appends
\* "(?<name>op)" when a name and text are given.
C4_CaptureGroup ==
    [][(/\ last'.op = "capture_group"
        /\ last'.arg1.kind # "int"
        /\ last'.arg2.kind # "int") =>
         LET e == EmbeddedBy(last') IN
         IF last'.arg1 = None /\ last'.arg2 = None
         THEN outcome' = "ValueError" /\ Appended = <<>>
         ELSE IF last'.arg1 = None \/ last'.arg2 = None
         THEN outcome' = "ok" /\ Appended = << <<"(">> \o e \o <<")">> >>
         ELSE IF last'.arg1.kind \in {"str", "esc"}
         THEN /\ outcome' = "ok"
              /\ Appended = << <<"(", "?", "<">> \o last'.arg1.text \o <<">">>
                               \o e \o <<")">> >>
         ELSE TRUE]_vars

\* C5: a call that raises an argument error leaves every builder's fragments
\* and flags as they were.
C5_ErrorLeavesBuilder ==
    [][outcome' \in ArgumentErrors => parts' = parts /\ modifiers' = modifiers]_vars

\* C5's case: OR, which appends "|" before it hands its operand to find, was
\* called on a builder with fragments and rejected its operand.
C5_Witness ==
    /\ last.op = "OR"
    /\ outcome = BeartypeViolation
    /\ parts[last.self] # <<>>
    /\ \A i \in DOMAIN parts[last.self] : parts[last.self][i] # <<"|">>

FlagOf(op) ==
    CASE op = "with_any_case" -> "IGNORECASE"
      [] op = "search_by_line" -> "MULTILINE"
      [] op = "with_ascii" -> "ASCII"

\* C6: no call takes a flag away; with_any_case, search_by_line and
\* with_ascii add their one flag to the receiver's set, change nothing else
\* and return the receiver; every other call, compiling included, leaves all
\* flags as they were.
C6_FlagsOnlyGrow ==
    [][/\ \A b \in Builders : modifiers[b] \subseteq modifiers'[b]
       /\ last'.op \in FlagOps =>
            /\ modifiers' = [modifiers EXCEPT ![last'.self] = @ \cup {FlagOf(last'.op)}]
            /\ parts' = parts
            /\ outcome' = "ok"
            /\ returned' = last'.self
       /\ last'.op \notin FlagOps => modifiers' = modifiers]_vars

\* C6's case: with_any_case was called on a builder that had a flag, and the
\* builder has both.
C6_Witness ==
    /\ last.op = "with_any_case"
    /\ modifiers[last.self] = {"MULTILINE", "IGNORECASE"}

\* C7 as stated: any_of, not_any_of and anything_but embed their argument as
\* it was passed, a plain string character for character.
C7_RawClassBody ==
    [][(/\ last'.op \in ClassOps
        /\ last'.arg1.kind \in {"str", "esc", "cc"}) =>
         /\ outcome' = "ok"
         /\ Appended = TableFragments(last', last'.arg1.text)]_vars

\* C7, amended: any_of(chars) appends "(?:[E])", not_any_of(chars)
\* "(?:[^E])" and anything_but(chars) "[^E]+", where E is re.escape(chars)
\* for a plain string and chars itself for an EscapedText or a CharClass
\* member.
C7_EscapedClassBody ==
    [][(/\ last'.op \in ClassOps
        /\ last'.arg1.kind \in {"str", "esc", "cc"}) =>
         /\ outcome' = "ok"
         /\ Appended = TableFragments(last', Embedded(last'.arg1))]_vars

\* C7's case: not_any_of was given a plain string with a metacharacter.
C7_Witness ==
    /\ last.op = "not_any_of"
    /\ last.arg1 = PlainStr(<<"a", ".">>)
    /\ outcome = "ok"
    /\ parts[last.self][Len(parts[last.self])]
         = <<"(", "?", ":", "[", "^", "a", "\\", ".", "]", ")">>

\* The pieces of s between the separators sep.
RECURSIVE SplitAt(_, _, _)
SplitAt(s, sep, piece) ==
    IF s = <<>> THEN <<piece>>
    ELSE IF Head(s) = sep THEN <<piece>> \o SplitAt(Tail(s), sep, <<>>)
    ELSE SplitAt(Tail(s), sep, Append(piece, Head(s)))

IsDecimal(s) ==
    LET d == IF s # <<>> /\ Head(s) = "-" THEN Tail(s) ELSE s IN
    d # <<>> /\ \A i \in DOMAIN d : IsDigit(d[i])

DecimalValue(s) ==
    IF Head(s) = "-" THEN 0 - StrToNat(Tail(s)) ELSE StrToNat(s)

\* C8: for n <= m, number_range(n, m) appends one fragment, "(?:" ... ")",
\* whose alternatives, read back as decimal numbers, are n, n + 1, ..., m, each
\* once and in this order.
C8_NumberRange ==
    [][(last'.op = "number_range" /\ last'.n <= last'.m) =>
         /\ outcome' = "ok"
         /\ Len(Appended) = 1
         /\ LET f == Appended[1]
                alts == SplitAt(SubSeq(f, 4, Len(f) - 1), "|", <<>>)
            IN  /\ Len(f) >= 5
                /\ SubSeq(f, 1, 3) = <<"(", "?", ":">>
                /\ f[Len(f)] = ")"
                /\ \A k \in DOMAIN alts : IsDecimal(alts[k])
                /\ [k \in DOMAIN alts |-> DecimalValue(alts[k])]
                     = [k \in 1..(last'.m - last'.n + 1) |-> last'.n + k - 1]]_vars

\* C8's case: a range from a negative number up, of more than one number.
C8_Witness ==
    /\ last.op = "number_range"
    /\ last.n < 0
    /\ last.m >= 0
    /\ outcome = "ok"

C10_EmbeddingIsASnapshot ==
    [][/\ \A b \in Builders \ {last'.self} :
            parts'[b] = parts[b] /\ modifiers'[b] = modifiers[b]
       /\ (/\ last'.op \in ComposeOps
           /\ OperandOf(last').kind = "vbx"
           /\ OperandOf(last').ref # last'.self
           /\ outcome' = "ok") =>
            /\ modifiers' = modifiers
            /\ Len(Appended) >= 1
            /\ LET f == Appended[Len(Appended)]
                   e == Join(parts[OperandOf(last').ref])
               IN  IF IsNamedGroup(last')
                   THEN IsNamedGroupOf(f, e)
                   ELSE f = TablePrefix(last'.op) \o e
                            \o TableSuffix(last'.op, last'.n, last'.m)]_vars

\* C10's case: y, which has a fragment and a flag, was embedded in x, which
\* has no flag.
C10_Witness ==
    /\ last.op \in ComposeOps
    /\ last.self = "x"
    /\ OperandOf(last) = VerbexRef("y")
    /\ outcome = "ok"
    /\ parts["y"] # <<>>
    /\ modifiers["y"] = {"MULTILINE"}
    /\ modifiers["x"] = {}

============================================================================
